---- MODULE Spec2Model ----
(***************************************************************************)
(* A model of msrflute's entry points.                                     *)
(*                                                                         *)
(*   SpecPre : experiments/fedrec/preprocess.py, the script that splits a  *)
(*             MIND behaviors.tsv into a pretraining file and a per-user   *)
(*             training manifest.                                          *)
(*   Spec    : e2e_trainer.py run_worker on every rank, followed by the    *)
(*             round protocol of the Coordinator and the Workers.          *)
(*   FairSpec: Spec with the fairness of one OS process per rank.          *)
(***************************************************************************)
EXTENDS Integers, Sequences, FiniteSets, TLC

(***************************************************************************)
(* Bounds and sample inputs.                                               *)
(***************************************************************************)
MaxRows == 3

\* Worker ranks are 1..NumWorkers; rank 0 is the Coordinator.
NumWorkers == 2

\* The number of users of the training manifest (Client.get_num_users).
NumClients == 3

\* server_config max_iteration of the sample runs.
MaxIteration == 2

\* How often a round with no successful update is tried again before it is
\* counted as failed.
MaxRetries == 1

UserIds == {"U1", "U2"}

\* The 'Time' column as written in the file, reduced to its hour and its
\* AM/PM mark ('%I ... %p'); all sample rows are on the same day.
TimeStrings ==
    { [h |-> 12, p |-> "AM"], [h |-> 1, p |-> "AM"],
      [h |-> 12, p |-> "PM"], [h |-> 1, p |-> "PM"] }

\* --time_split as a fraction <<numerator, denominator>>; <<1, 10>> is the
\* default 0.1.
TimeSplits == { <<0, 1>>, <<1, 10>>, <<1, 2>>, <<9, 10>>, <<1, 1>>, <<-1, 2>> }

VARIABLES
    \* ---- preprocess.py ----
    behaviors,          \* the rows of behaviors.tsv, in file order
    time_split,         \* args.time_split
    ppc,                \* position of the script
    idx,                \* cursor of the loop the script is in
    rows, timestamps, user_timestamps, all_users,
    split_time,
    user_pretraining,
    pretraining_tsv,    \* rows written to behaviors_pretraining.tsv
    users,              \* out_json['users']
    num_samples,        \* the dict num_samples
    user_data,          \* out_json['user_data']
    out_num_samples     \* out_json['num_samples'] (None until line 100)

prevars == << behaviors, time_split, ppc, idx, rows, timestamps,
              user_timestamps, all_users, split_time, user_pretraining,
              pretraining_tsv, users, num_samples, user_data,
              out_num_samples >>

VARIABLES
    \* ---- e2e_trainer.py, one process per rank ----
    local_rank,         \* --local_rank of each process
    rank,               \* the local 'rank' of the processes that have set it
    pc,                 \* position of each process
    bound,              \* the local names of run_worker bound so far
    completed,          \* the statements of the try block that completed
    exc,                \* the exception a process ended with
    raised_at,          \* the construction step that raised
    server_run,         \* processes that called server.run()
    worker_run,         \* processes that called worker.run()
    term_sent,          \* Workers a termination signal was sent to
    \* ---- the round protocol ----
    num_clients_per_iteration, noop_policy,
    to_worker, from_worker,     \* the FIFO channels of the Rank Fabric
    wjob,                       \* the assignment a Worker is at work on
    iteration,                  \* GlobalModel iteration counter
    attempts,                   \* tries of the current round
    sampled, outstanding, collected,
    busy,                       \* Workers whose report is still to come
    aggregated,                 \* the updates of the last aggregate applied
    dispatched,                 \* the last round assignments were sent for
    last_round                  \* how the last round that is over ended

tvars == << local_rank, rank, pc, bound, completed, exc, raised_at, server_run,
            worker_run, term_sent, num_clients_per_iteration, noop_policy,
            to_worker, from_worker, wjob, iteration, attempts, sampled,
            outstanding, collected, busy, aggregated, dispatched, last_round >>

vars == << prevars, tvars >>

None == "None"

Procs == 0..NumWorkers
Workers == 1..NumWorkers
Clients == 1..NumClients

NoJob == [round |-> -1, try |-> 0, clients |-> {}]

NoRound == [round |-> -1, status |-> "none", close |-> "none", missing |-> {}]

\* The trainer left out of a run of preprocess.py, and the reverse.
TrainerIdle ==
    /\ local_rank = [p \in Procs |-> -1]
    /\ rank = << >>
    /\ pc = [p \in Procs |-> "off"]
    /\ bound = [p \in Procs |-> {}]
    /\ completed = [p \in Procs |-> {}]
    /\ exc = [p \in Procs |-> None]
    /\ raised_at = [p \in Procs |-> None]
    /\ server_run = {}
    /\ worker_run = {}
    /\ term_sent = {}
    /\ num_clients_per_iteration = -1
    /\ noop_policy = "skip"
    /\ to_worker = [w \in Workers |-> << >>]
    /\ from_worker = [w \in Workers |-> << >>]
    /\ wjob = [w \in Workers |-> NoJob]
    /\ iteration = 0
    /\ attempts = 0
    /\ sampled = {}
    /\ outstanding = {}
    /\ collected = << >>
    /\ busy = {}
    /\ aggregated = << >>
    /\ dispatched = -1
    /\ last_round = NoRound

PreIdle ==
    /\ behaviors = << >>
    /\ time_split = << 1, 10 >>
    /\ ppc = "off"
    /\ idx = 1
    /\ rows = << >>
    /\ timestamps = << >>
    /\ user_timestamps = << >>
    /\ all_users = {}
    /\ split_time = None
    /\ user_pretraining = {}
    /\ pretraining_tsv = << >>
    /\ users = << >>
    /\ num_samples = << >>
    /\ user_data = << >>
    /\ out_num_samples = None

(***************************************************************************)
(* preprocess.py                                                           *)
(***************************************************************************)

\* A csv row is the list of its columns; History and Impressions play no
\* part in the split and are left out.
Row(i, u, t) == << i, u, t >>

\* dict(zip(header, row))
ZipHeader(row) == [ImpressionID |-> row[1], UserID |-> row[2], Time |-> row[3]]

\* datetime.strptime(d['Time'], '%m/%d/%Y %I:%M:%S %p'): the hour of the day
\* of a 12-hour clock reading (12 AM is 0, 12 PM is 12).
Strptime(s) == (s.h % 12) + (IF s.p = "PM" THEN 12 ELSE 0)

RECURSIVE Insert(_, _)
Insert(x, s) ==
    IF s = << >> THEN << x >>
    ELSE IF x < Head(s) THEN << x >> \o s
    ELSE << Head(s) >> \o Insert(x, Tail(s))

\* sorted(timestamps)
RECURSIVE Sorted(_)
Sorted(s) == IF s = << >> THEN << >> ELSE Insert(Head(s), Sorted(Tail(s)))

\* int(len(timestamps) * args.time_split): int() truncates toward zero.
SplitIndexUp(n, ts) == (n * ts[1] + ts[2] - 1) \div ts[2]
SplitIndex(n, ts) ==
    IF ts[1] >= 0 THEN (n * ts[1]) \div ts[2]
    ELSE 0 - ((n * (0 - ts[1])) \div ts[2])

\* list[i] of Python: a negative index counts from the end, and an index
\* outside -len..len-1 raises IndexError.
PyIndexInRange(s, i) == i < Len(s) /\ i >= 0 - Len(s)

PyIndex(s, i) == IF i >= 0 THEN s[i + 1] ELSE s[Len(s) + i + 1]

\* line 77: t < split_time
UserBeforeSplitOrAt(t, st) == t <= st
UserBeforeSplit(t, st) == t < st

\* line 87: timestamp < split_time
RowBeforeSplitOrAt(t, st) == t <= st
RowBeforeSplit(t, st) == t < st

\* line 91: u not in out_json['user_data']
IsNewUserAlways(u, ud) == TRUE
IsNewUser(u, ud) == u \notin DOMAIN ud

BehaviorFiles ==
    UNION { { f \in [1..n -> UserIds \X TimeStrings] : TRUE } : n \in 0..MaxRows }

PreInit ==
    /\ \E f \in BehaviorFiles :
          behaviors = [i \in DOMAIN f |-> Row(i, f[i][1], f[i][2])]
    /\ time_split \in TimeSplits
    /\ ppc = "read"
    /\ idx = 1
    /\ rows = << >>
    /\ timestamps = << >>
    /\ user_timestamps = << >>
    /\ all_users = {}
    /\ split_time = None
    /\ user_pretraining = {}
    /\ pretraining_tsv = << >>
    /\ users = << >>
    /\ num_samples = << >>
    /\ user_data = << >>
    /\ out_num_samples = None
    /\ TrainerIdle

\* lines 66-72: one iteration of 'for row in reader'
ReadRow ==
    /\ ppc = "read"
    /\ idx <= Len(behaviors)
    /\ LET row == behaviors[idx]
           d == ZipHeader(row)
           timestamp == Strptime(d.Time)
       IN /\ rows' = Append(rows, row)
          /\ timestamps' = Append(timestamps, timestamp)
          /\ user_timestamps' = Append(user_timestamps, << d.UserID, timestamp >>)
          /\ all_users' = all_users \cup { d.UserID }
    /\ idx' = idx + 1
    /\ UNCHANGED << behaviors, time_split, ppc, split_time, user_pretraining,
                    pretraining_tsv, users, num_samples, user_data,
                    out_num_samples >>
    /\ UNCHANGED tvars

\* line 74, the index in range
ComputeSplit ==
    /\ ppc = "read"
    /\ idx > Len(behaviors)
    /\ LET i == SplitIndex(Len(timestamps), time_split)
       IN /\ PyIndexInRange(Sorted(timestamps), i)
          /\ split_time' = PyIndex(Sorted(timestamps), i)
    /\ ppc' = "mark"
    /\ idx' = 1
    /\ UNCHANGED << behaviors, time_split, rows, timestamps, user_timestamps,
                    all_users, user_pretraining, pretraining_tsv, users,
                    num_samples, user_data, out_num_samples >>
    /\ UNCHANGED tvars

\* line 74, IndexError: the script ends with nothing written
SplitIndexError ==
    /\ ppc = "read"
    /\ idx > Len(behaviors)
    /\ ~PyIndexInRange(Sorted(timestamps), SplitIndex(Len(timestamps), time_split))
    /\ ppc' = "error"
    /\ UNCHANGED << behaviors, time_split, idx, rows, timestamps,
                    user_timestamps, all_users, split_time, user_pretraining,
                    pretraining_tsv, users, num_samples, user_data,
                    out_num_samples >>
    /\ UNCHANGED tvars

\* lines 76-78: one iteration of 'for u, t in user_timestamps'
MarkPretraining ==
    /\ ppc = "mark"
    /\ idx <= Len(user_timestamps)
    /\ LET u == user_timestamps[idx][1]
           t == user_timestamps[idx][2]
       IN user_pretraining' =
             IF UserBeforeSplit(t, split_time) THEN user_pretraining \cup { u }
             ELSE user_pretraining
    /\ idx' = idx + 1
    /\ UNCHANGED << behaviors, time_split, ppc, rows, timestamps,
                    user_timestamps, all_users, split_time, pretraining_tsv,
                    users, num_samples, user_data, out_num_samples >>
    /\ UNCHANGED tvars

\* lines 81-83: open behaviors_pretraining.tsv, num_samples = {}
OpenWriter ==
    /\ ppc = "mark"
    /\ idx > Len(user_timestamps)
    /\ ppc' = "write"
    /\ idx' = 1
    /\ num_samples' = << >>
    /\ UNCHANGED << behaviors, time_split, rows, timestamps, user_timestamps,
                    all_users, split_time, user_pretraining, pretraining_tsv,
                    users, user_data, out_num_samples >>
    /\ UNCHANGED tvars

\* lines 84-99: one iteration of 'for row in rows'
WriteRow ==
    /\ ppc = "write"
    /\ idx <= Len(rows)
    /\ LET row == rows[idx]
           d == ZipHeader(row)
           timestamp == Strptime(d.Time)
           u == d.UserID
           new == IsNewUser(u, user_data)
           users1 == IF new THEN Append(users, u) ELSE users
           ns1 == IF new THEN [v \in DOMAIN num_samples \cup { u } |->
                                 IF v = u THEN 0 ELSE num_samples[v]]
                  ELSE num_samples
           ud1 == IF new THEN [v \in DOMAIN user_data \cup { u } |->
                                 IF v = u
                                 THEN [in_pretraining |-> u \in user_pretraining,
                                       x |-> << >>]
                                 ELSE user_data[v]]
                  ELSE user_data
       IN IF RowBeforeSplit(timestamp, split_time)
          THEN /\ pretraining_tsv' = Append(pretraining_tsv, row)
               /\ UNCHANGED << users, num_samples, user_data >>
          ELSE /\ users' = users1
               /\ user_data' = [ud1 EXCEPT ![u].x = Append(@, d)]
               /\ num_samples' = [ns1 EXCEPT ![u] = @ + 1]
               /\ UNCHANGED pretraining_tsv
    /\ idx' = idx + 1
    /\ UNCHANGED << behaviors, time_split, ppc, rows, timestamps,
                    user_timestamps, all_users, split_time, user_pretraining,
                    out_num_samples >>
    /\ UNCHANGED tvars

\* lines 100-102: num_samples as a list, behaviors_flute.json written
WriteManifest ==
    /\ ppc = "write"
    /\ idx > Len(rows)
    /\ out_num_samples' = [i \in 1..Len(users) |-> num_samples[users[i]]]
    /\ ppc' = "done"
    /\ UNCHANGED << behaviors, time_split, idx, rows, timestamps,
                    user_timestamps, all_users, split_time, user_pretraining,
                    pretraining_tsv, users, num_samples, user_data >>
    /\ UNCHANGED tvars

PreNext ==
    \/ ReadRow
    \/ ComputeSplit
    \/ SplitIndexError
    \/ MarkPretraining
    \/ OpenWriter
    \/ WriteRow
    \/ WriteManifest

SpecPre == PreInit /\ [][PreNext]_vars

(***************************************************************************)
(* e2e_trainer.py: run_worker, on every rank                               *)
(***************************************************************************)

\* line 241: default_server_conf["num_clients_per_iteration"]
DefaultNumClientsPerIteration == -1

\* line 107: rank = local_rank if local_rank > -1 else federated.rank()
RankOfLocalOnly(lr, fr) == lr
RankOf(lr, fr) == IF lr > -1 THEN lr ELSE fr

\* line 119: if rank == 0
IsServerRank(r) == r = 0

\* The statements of the try block, lines 121-163, in order.
ConstructionSteps ==
    << "get_num_users", "train_dataloader", "val_dataloader",
       "test_dataloader", "make_optimizer", "find_pretrained_model",
       "load_pretrained", "select_server", "server_setup",
       "log_run_properties" >>

\* The local name each statement binds when it completes.
Binds(step) ==
    CASE step = "get_num_users" -> {"training_filename", "data_config"}
      [] step = "train_dataloader" -> {"server_train_dataloader"}
      [] step = "val_dataloader" -> {"val_dataloader"}
      [] step = "test_dataloader" -> {"test_dataloader"}
      [] step = "make_optimizer" -> {"optimizer"}
      [] step = "find_pretrained_model" -> {"best_trained_model"}
      [] step = "load_pretrained" -> {}
      [] step = "select_server" -> {"server_type", "server_setup"}
      [] step = "server_setup" -> {"server"}
      [] step = "log_run_properties" -> {}

StepIndex(step) == CHOOSE i \in DOMAIN ConstructionSteps : ConstructionSteps[i] = step

\* Where the try block goes after a statement that completed.
AfterStep(step) ==
    IF StepIndex(step) = Len(ConstructionSteps) THEN "launch"
    ELSE ConstructionSteps[StepIndex(step) + 1]

\* line 168: 'raise e' ends run_worker with the exception
HandlerExitFallThrough == "launch"
HandlerExit == "raised"

\* The two ways the job is launched: mpiexec (no --local_rank, the rank is
\* federated.rank()) and one launcher process per rank with --local_rank.
TrainerInit ==
    /\ local_rank \in { [p \in Procs |-> -1], [p \in Procs |-> p] }
    /\ rank = << >>
    /\ pc = [p \in Procs |-> "start"]
    /\ bound = [p \in Procs |-> {}]
    /\ completed = [p \in Procs |-> {}]
    /\ exc = [p \in Procs |-> None]
    /\ raised_at = [p \in Procs |-> None]
    /\ server_run = {}
    /\ worker_run = {}
    /\ term_sent = {}
    /\ num_clients_per_iteration \in
          { DefaultNumClientsPerIteration, 1, NumClients - 1, NumClients + 1 }
    /\ noop_policy \in { "skip", "retry" }
    /\ to_worker = [w \in Workers |-> << >>]
    /\ from_worker = [w \in Workers |-> << >>]
    /\ wjob = [w \in Workers |-> NoJob]
    /\ iteration = 0
    /\ attempts = 0
    /\ sampled = {}
    /\ outstanding = {}
    /\ collected = << >>
    /\ busy = {}
    /\ aggregated = << >>
    /\ dispatched = -1
    /\ last_round = NoRound

Init == TrainerInit /\ PreIdle

protocol_vars == << num_clients_per_iteration, noop_policy, to_worker,
                    from_worker, wjob, iteration, attempts, sampled,
                    outstanding, collected, busy, aggregated, dispatched,
                    last_round >>

\* lines 102-119 and 173: the rank of the process, the model, and the
\* branch on the rank
Startup(p) ==
    /\ pc[p] = "start"
    /\ LET r == RankOf(local_rank[p], p)
       IN /\ rank' = (p :> r) @@ rank
          /\ pc' = [pc EXCEPT ![p] = IF IsServerRank(r)
                                      THEN ConstructionSteps[1]
                                      ELSE "worker_init"]
    /\ bound' = [bound EXCEPT ![p] = @ \cup {"model"}]
    /\ UNCHANGED << local_rank, completed, exc, raised_at, server_run,
                    worker_run, term_sent, protocol_vars, prevars >>

\* A statement of the try block completes.
Completes(p, step) ==
    /\ pc' = [pc EXCEPT ![p] = AfterStep(step)]
    /\ bound' = [bound EXCEPT ![p] = @ \cup Binds(step)]
    /\ completed' = [completed EXCEPT ![p] = @ \cup { step }]
    /\ UNCHANGED << exc, raised_at >>

\* A statement of the try block raises: control goes to line 165.
Raises(p, step) ==
    /\ pc' = [pc EXCEPT ![p] = "except"]
    /\ raised_at' = [raised_at EXCEPT ![p] = step]
    /\ UNCHANGED << bound, completed, exc >>

\* One statement of the try block, lines 121-163; every one of them calls
\* code that can raise.
ConstructStep(p, step) ==
    /\ pc[p] = step
    /\ \/ Completes(p, step)
       \/ Raises(p, step)
    /\ UNCHANGED << local_rank, rank, server_run, worker_run, term_sent,
                    protocol_vars, prevars >>

\* lines 124-126
GetNumUsers(p) == ConstructStep(p, "get_num_users")

\* lines 129-132: without 'train' in data_config nothing is called
MakeTrainDataloader(p) ==
    /\ pc[p] = "train_dataloader"
    /\ \E has_train \in BOOLEAN :
          \/ Completes(p, "train_dataloader")
          \/ has_train /\ Raises(p, "train_dataloader")
    /\ UNCHANGED << local_rank, rank, server_run, worker_run, term_sent,
                    protocol_vars, prevars >>

\* line 133
MakeValDataloader(p) == ConstructStep(p, "val_dataloader")

\* line 134
MakeTestDataloader(p) == ConstructStep(p, "test_dataloader")

\* line 139
MakeOptimizer(p) == ConstructStep(p, "make_optimizer")

\* line 142
FindPretrainedModel(p) == ConstructStep(p, "find_pretrained_model")

\* lines 143-146: with no pretrained model nothing is loaded
LoadPretrained(p) ==
    /\ pc[p] = "load_pretrained"
    /\ \E found \in BOOLEAN :
          \/ Completes(p, "load_pretrained")
          \/ found /\ Raises(p, "load_pretrained")
    /\ UNCHANGED << local_rank, rank, server_run, worker_run, term_sent,
                    protocol_vars, prevars >>

\* lines 148-149
SelectServer(p) == ConstructStep(p, "select_server")

\* lines 150-162: 'server' is bound only when the constructor returns
ServerSetup(p) == ConstructStep(p, "server_setup")

\* line 163
LogRunProperties(p) == ConstructStep(p, "log_run_properties")

\* server.terminate_workers(): a termination signal to every Worker
TerminateWorkers ==
    /\ to_worker' = [w \in Workers |-> Append(to_worker[w], [type |-> "terminate"])]
    /\ term_sent' = term_sent \cup Workers

\* lines 165-168: 'server.terminate_workers()' reads the local 'server'; when
\* the try block raised before binding it, the read itself raises
\* UnboundLocalError and nothing is sent.
ExceptHandler(p) ==
    /\ pc[p] = "except"
    /\ IF "server" \in bound[p]
       THEN /\ TerminateWorkers
            /\ pc' = [pc EXCEPT ![p] = HandlerExit]
            /\ exc' = [exc EXCEPT ![p] = "Exception"]
       ELSE /\ pc' = [pc EXCEPT ![p] = "raised"]
            /\ exc' = [exc EXCEPT ![p] = "UnboundLocalError"]
            /\ UNCHANGED << to_worker, term_sent >>
    /\ UNCHANGED << local_rank, rank, bound, completed, raised_at, server_run,
                    worker_run, num_clients_per_iteration, noop_policy,
                    from_worker, wjob, iteration, attempts, sampled,
                    outstanding, collected, busy, aggregated, dispatched,
                    last_round, prevars >>

\* lines 170-171: server.run()
LaunchServer(p) ==
    /\ pc[p] = "launch"
    /\ server_run' = server_run \cup { p }
    /\ pc' = [pc EXCEPT ![p] = "sample"]
    /\ UNCHANGED << local_rank, rank, bound, completed, exc, raised_at,
                    worker_run, term_sent, protocol_vars, prevars >>

\* lines 174-183: federated.Worker(...) and worker.run()
WorkerInit(p) ==
    /\ pc[p] = "worker_init"
    /\ worker_run' = worker_run \cup { p }
    /\ bound' = [bound EXCEPT ![p] = @ \cup {"client_config", "worker"}]
    /\ pc' = [pc EXCEPT ![p] = "IDLE"]
    /\ UNCHANGED << local_rank, rank, completed, exc, raised_at, server_run,
                    term_sent, protocol_vars, prevars >>

(***************************************************************************)
(* The round protocol behind server.run() and worker.run() (core/server.py *)
(* and core/federated.py), after sections 4.3, 4.4 and 5 of the            *)
(* specification.                                                          *)
(***************************************************************************)

\* 4.4 step 1: k clients, the whole registry when k is -1 or exceeds it
SampleSizeOneMore(k, n) == IF k = -1 \/ k > n THEN n ELSE IF k < n THEN k + 1 ELSE k
SampleSize(k, n) == IF k = -1 \/ k > n THEN n ELSE k

\* The members of a set of numbers, in increasing order.
RECURSIVE SetToSeq(_)
SetToSeq(S) ==
    IF S = {} THEN << >>
    ELSE LET c == CHOOSE x \in S : \A y \in S : x <= y
         IN << c >> \o SetToSeq(S \ { c })

\* 4.4 step 2: the sampled clients dealt round-robin to the available Workers
WorkerOf(c, S, avail) ==
    SetToSeq(avail)[(Cardinality({ d \in S : d < c }) % Cardinality(avail)) + 1]

AssignedTo(w, S, avail) ==
    IF w \in avail THEN { c \in S : WorkerOf(c, S, avail) = w } ELSE {}

\* 4.4 step 3: the collection condition, every assigned Worker has reported
AllReportedOrNot(out) == TRUE
AllReported(out) == out = {}

\* 4.4 steps 1 and 2: k clients are sampled and each available Worker with
\* clients gets the snapshot and its client ids; a Worker still at work for a
\* round that timed out is not available
SampleAndDispatch(p) ==
    /\ pc[p] = "sample"
    /\ Workers \ busy # {}
    /\ \E S \in SUBSET Clients :
          /\ Cardinality(S) = SampleSize(num_clients_per_iteration, NumClients)
          /\ sampled' = S
    /\ LET avail == Workers \ busy
           given == { w \in Workers : AssignedTo(w, sampled', avail) # {} }
       IN /\ to_worker' =
                [w \in Workers |->
                    IF w \in given
                    THEN Append(to_worker[w],
                                [type |-> "assign", round |-> iteration,
                                 try |-> attempts,
                                 clients |-> AssignedTo(w, sampled', avail)])
                    ELSE to_worker[w]]
          /\ outstanding' = given
          /\ busy' = busy \cup given
    /\ dispatched' = iteration
    /\ collected' = << >>
    /\ pc' = [pc EXCEPT ![p] = "collect"]
    /\ UNCHANGED << local_rank, rank, bound, completed, exc, raised_at,
                    server_run, worker_run, term_sent,
                    num_clients_per_iteration, noop_policy, from_worker, wjob,
                    iteration, attempts, aggregated, last_round, prevars >>

\* 4.4 step 3: a report arrives; one for a round that timed out is discarded
RecvReport(p, w) ==
    /\ pc[p] \in { "sample", "collect" }
    /\ from_worker[w] # << >>
    /\ LET m == Head(from_worker[w])
       IN IF pc[p] = "collect" /\ m.round = iteration /\ m.try = attempts
             /\ w \in outstanding
          THEN /\ collected' = collected \o SetToSeq(m.ok)
               /\ outstanding' = outstanding \ { w }
          ELSE UNCHANGED << collected, outstanding >>
    /\ busy' = busy \ { w }
    /\ from_worker' = [from_worker EXCEPT ![w] = Tail(@)]
    /\ UNCHANGED << local_rank, rank, pc, bound, completed, exc, raised_at,
                    server_run, worker_run, term_sent,
                    num_clients_per_iteration, noop_policy, to_worker, wjob,
                    iteration, attempts, sampled, aggregated, dispatched,
                    last_round, prevars >>

\* 4.4 steps 4 and 5: the successful updates are aggregated and applied as
\* one step of the GlobalModel. A round with no successful update is a
\* no-op: it is tried again (at most MaxRetries times) or counted as failed.
FinishRound(p, how) ==
    /\ IF collected = << >> /\ noop_policy = "retry" /\ attempts < MaxRetries
       THEN /\ attempts' = attempts + 1
            /\ pc' = [pc EXCEPT ![p] = "sample"]
            /\ UNCHANGED << iteration, aggregated, last_round >>
       ELSE /\ aggregated' = collected
            /\ iteration' = iteration + 1
            /\ attempts' = 0
            /\ last_round' = [round |-> iteration,
                               status |-> IF collected = << >> THEN "failed"
                                          ELSE "applied",
                               close |-> how, missing |-> outstanding]
            /\ pc' = [pc EXCEPT ![p] = IF iteration + 1 >= MaxIteration
                                        THEN "stop" ELSE "sample"]
    /\ UNCHANGED << local_rank, rank, bound, completed, exc, raised_at,
                    server_run, worker_run, term_sent,
                    num_clients_per_iteration, noop_policy, to_worker,
                    from_worker, wjob, sampled, outstanding, collected, busy,
                    dispatched, prevars >>

\* 4.4 step 3: every assigned client has reported success or failure
CollectDone(p) ==
    /\ pc[p] = "collect"
    /\ AllReported(outstanding)
    /\ FinishRound(p, "all_reported")

\* 4.4 step 3: the per-round timeout elapses with reports still missing
Timeout(p) ==
    /\ pc[p] = "collect"
    /\ outstanding # {}
    /\ FinishRound(p, "timeout")

\* 4.4 step 8: on stop, termination is broadcast and the process ends
Stop(p) ==
    /\ pc[p] = "stop"
    /\ TerminateWorkers
    /\ pc' = [pc EXCEPT ![p] = "exited"]
    /\ UNCHANGED << local_rank, rank, bound, completed, exc, raised_at,
                    server_run, worker_run, num_clients_per_iteration,
                    noop_policy, from_worker, wjob, iteration, attempts,
                    sampled, outstanding, collected, busy, aggregated,
                    dispatched, last_round, prevars >>

\* 4.3 assign: IDLE -> TRAINING
WorkerAssign(w) ==
    /\ pc[w] = "IDLE"
    /\ to_worker[w] # << >>
    /\ Head(to_worker[w]).type = "assign"
    /\ wjob' = [wjob EXCEPT ![w] = [round |-> Head(to_worker[w]).round,
                                    try |-> Head(to_worker[w]).try,
                                    clients |-> Head(to_worker[w]).clients]]
    /\ to_worker' = [to_worker EXCEPT ![w] = Tail(@)]
    /\ pc' = [pc EXCEPT ![w] = "TRAINING"]
    /\ UNCHANGED << local_rank, rank, bound, completed, exc, raised_at,
                    server_run, worker_run, term_sent,
                    num_clients_per_iteration, noop_policy, from_worker,
                    iteration, attempts, sampled, outstanding, collected, busy,
                    aggregated, dispatched, last_round, prevars >>

\* 4.3: local training of the assigned clients ends; TRAINING -> REPORTING
WorkerTrain(w) ==
    /\ pc[w] = "TRAINING"
    /\ pc' = [pc EXCEPT ![w] = "REPORTING"]
    /\ UNCHANGED << local_rank, rank, bound, completed, exc, raised_at,
                    server_run, worker_run, term_sent, protocol_vars,
                    prevars >>

\* 4.3 report: the outcomes go to the Coordinator, for each client its update
\* or the TrainingFailure of that client alone; REPORTING -> IDLE
WorkerReport(w) ==
    /\ pc[w] = "REPORTING"
    /\ \E ok \in SUBSET wjob[w].clients :
          from_worker' = [from_worker EXCEPT ![w] =
                             Append(@, [round |-> wjob[w].round,
                                        try |-> wjob[w].try, ok |-> ok,
                                        failed |-> wjob[w].clients \ ok])]
    /\ wjob' = [wjob EXCEPT ![w] = NoJob]
    /\ pc' = [pc EXCEPT ![w] = "IDLE"]
    /\ UNCHANGED << local_rank, rank, bound, completed, exc, raised_at,
                    server_run, worker_run, term_sent,
                    num_clients_per_iteration, noop_policy, to_worker,
                    iteration, attempts, sampled, outstanding, collected, busy,
                    aggregated, dispatched, last_round, prevars >>

\* 4.3 and 5: a termination signal ends the Worker from any state; work in
\* flight is abandoned without a report
WorkerTerminate(w) ==
    /\ pc[w] \in { "IDLE", "TRAINING", "REPORTING" }
    /\ to_worker[w] # << >>
    /\ Head(to_worker[w]).type = "terminate"
    /\ to_worker' = [to_worker EXCEPT ![w] = Tail(@)]
    /\ wjob' = [wjob EXCEPT ![w] = NoJob]
    /\ pc' = [pc EXCEPT ![w] = "SHUTDOWN"]
    /\ UNCHANGED << local_rank, rank, bound, completed, exc, raised_at,
                    server_run, worker_run, term_sent,
                    num_clients_per_iteration, noop_policy, from_worker,
                    iteration, attempts, sampled, outstanding, collected, busy,
                    aggregated, dispatched, last_round, prevars >>

CoordinatorStep(p) ==
    \/ GetNumUsers(p)
    \/ MakeTrainDataloader(p)
    \/ MakeValDataloader(p)
    \/ MakeTestDataloader(p)
    \/ MakeOptimizer(p)
    \/ FindPretrainedModel(p)
    \/ LoadPretrained(p)
    \/ SelectServer(p)
    \/ ServerSetup(p)
    \/ LogRunProperties(p)
    \/ ExceptHandler(p)
    \/ LaunchServer(p)
    \/ SampleAndDispatch(p)
    \/ \E w \in Workers : RecvReport(p, w)
    \/ CollectDone(p)
    \/ Timeout(p)
    \/ Stop(p)

WorkerStep(p) ==
    \/ WorkerInit(p)
    \/ p \in Workers /\ WorkerAssign(p)
    \/ p \in Workers /\ WorkerTrain(p)
    \/ p \in Workers /\ WorkerReport(p)
    \/ p \in Workers /\ WorkerTerminate(p)

ProcStep(p) == Startup(p) \/ CoordinatorStep(p) \/ WorkerStep(p)

Next == \E p \in Procs : ProcStep(p)

Spec == Init /\ [][Next]_vars

\* One OS process per rank: a process that can take a step takes one.
FairSpec == Spec /\ \A p \in Procs : WF_vars(ProcStep(p))

(***************************************************************************)
(* Properties of preprocess.py                                             *)
(***************************************************************************)

\* The parsed timestamp of input row i, and the rows strictly before the split.
InputTime(i) == Strptime(behaviors[i][3])
InputBefore(i) == InputTime(i) < split_time

\* C6: in the manifest written, every user id appears once in 'users',
\* 'num_samples' is as long as 'users', num_samples[i] is the number of
\* records of user_data[users[i]]['x'] and is positive, and the keys of
\* 'user_data' are the ids in 'users'.
C6_ManifestConsistent ==
    ppc = "done" =>
        /\ \A i, j \in 1..Len(users) : users[i] = users[j] => i = j
        /\ Len(out_num_samples) = Len(users)
        /\ \A i \in 1..Len(users) :
              /\ out_num_samples[i] = Len(user_data[users[i]].x)
              /\ out_num_samples[i] > 0
        /\ DOMAIN user_data = { users[i] : i \in 1..Len(users) }

C6_Witness ==
    /\ ppc = "done"
    /\ Len(users) = 2
    /\ \E i \in 1..Len(users) : out_num_samples[i] >= 2

\* C7: the input rows are partitioned by the split timestamp: the rows
\* strictly before split_time are behaviors_pretraining.tsv, in input order,
\* and the others are the 'x' lists of their own users, in input order; no
\* row is dropped or duplicated.
C7_Partition ==
    ppc = "done" =>
        LET Pre(row) == Strptime(row[3]) < split_time
        IN /\ pretraining_tsv = SelectSeq(behaviors, Pre)
           /\ \A u \in UserIds :
                 LET Mine(row) == row[2] = u /\ ~Pre(row)
                     s == SelectSeq(behaviors, Mine)
                 IN IF s = << >> THEN u \notin DOMAIN user_data
                    ELSE /\ u \in DOMAIN user_data
                         /\ user_data[u].x =
                               [i \in 1..Len(s) |->
                                  [ImpressionID |-> s[i][1], UserID |-> s[i][2],
                                   Time |-> s[i][3]]]

C7_Witness ==
    /\ ppc = "done"
    /\ Len(pretraining_tsv) >= 1
    /\ \E u \in DOMAIN user_data : Len(user_data[u].x) >= 2
    /\ \E i \in DOMAIN behaviors : InputTime(i) = split_time

C9_InPretrainingFlag ==
    ppc = "done" =>
        \A u \in DOMAIN user_data :
            /\ user_data[u].in_pretraining <=>
                  \E i \in DOMAIN behaviors : behaviors[i][2] = u /\ InputBefore(i)
            /\ user_data[u].in_pretraining <=>
                  \E j \in DOMAIN pretraining_tsv : pretraining_tsv[j][2] = u

C9_Witness ==
    /\ ppc = "done"
    /\ \E u \in DOMAIN user_data :
          /\ user_data[u].in_pretraining
          /\ \E i, j \in DOMAIN behaviors :
                /\ i < j
                /\ behaviors[i][2] = u /\ ~InputBefore(i)
                /\ behaviors[j][2] = u /\ InputBefore(j)
    /\ \E u \in DOMAIN user_data : ~user_data[u].in_pretraining

(***************************************************************************)
(* Properties of run_worker and of the round protocol                      *)
(***************************************************************************)

WorkerPcs == { "worker_init", "IDLE", "TRAINING", "REPORTING", "SHUTDOWN" }

\* The assignments on their way to a Worker or at work there.
AssignRounds(w) ==
    { to_worker[w][i].round :
         i \in { j \in DOMAIN to_worker[w] : to_worker[w][j].type = "assign" } }
    \cup (IF wjob[w] = NoJob THEN {} ELSE { wjob[w].round })

NoAssignmentEver ==
    /\ \A w \in Workers : AssignRounds(w) = {} /\ from_worker[w] = << >>
    /\ dispatched = -1

\* C1: whenever an exception raised inside the Coordinator construction
\* block has propagated out of run_worker, a termination signal has been
\* sent to every Worker.
C1_TerminateBeforePropagate ==
    \A p \in Procs : pc[p] = "raised" => term_sent = Workers

\* C2: if Coordinator construction fails, every Worker eventually reaches
\* SHUTDOWN and the Coordinator process ends with the exception.
C2_WorkersEventuallyShutDown ==
    (\E p \in Procs : raised_at[p] # None)
        ~> (/\ \A w \in Workers : pc[w] = "SHUTDOWN"
            /\ \E p \in Procs : pc[p] = "raised")

\* C3: the process whose rank is 0 takes the Coordinator role and every
\* other process the Worker role, never both, whether the rank is the
\* --local_rank argument or federated.rank().
C3_RoleByRank ==
    \A p \in Procs :
        LET r == IF local_rank[p] > -1 THEN local_rank[p] ELSE p
        IN /\ pc[p] # "start" => ((pc[p] \in WorkerPcs) <=> r # 0)
           /\ p \in server_run => r = 0 /\ p \notin worker_run
           /\ p \in worker_run => r # 0 /\ p \notin server_run
           /\ "server" \in bound[p] => r = 0
           /\ "worker" \in bound[p] => r # 0

C3_Witness ==
    /\ local_rank = [p \in Procs |-> -1]
    /\ server_run = { 0 }
    /\ worker_run = Workers

C5_AtMostConfigured ==
    aggregated # << >> =>
    /\ Len(aggregated) <= num_clients_per_iteration
    /\ \A i, j \in 1..Len(aggregated) : aggregated[i] = aggregated[j] => i = j

\* C5 as amended: the updates aggregated in a round are at most
\* num_clients_per_iteration, or at most the registry size when
\* num_clients_per_iteration is -1 (all clients), each client at most once.
C5_AtMostSampled ==
    aggregated # << >> =>
    /\ Len(aggregated) <=
          (IF num_clients_per_iteration = -1 THEN NumClients
           ELSE num_clients_per_iteration)
    /\ Len(collected) <=
          (IF num_clients_per_iteration = -1 THEN NumClients
           ELSE num_clients_per_iteration)
    /\ \A i, j \in 1..Len(aggregated) : aggregated[i] = aggregated[j] => i = j

C5_Witness ==
    /\ num_clients_per_iteration = NumClients - 1
    /\ Len(aggregated) = NumClients - 1
    /\ iteration = 2

\* C10: server.run() is called only after every statement of the
\* construction block has completed without an exception; once a statement
\* has raised, server.run() is never called and no assignment is ever sent.
C10_RunAfterConstruction ==
    /\ server_run = {} => NoAssignmentEver
    /\ \A p \in Procs :
          /\ p \in server_run =>
                /\ raised_at[p] = None
                /\ completed[p] =
                      { ConstructionSteps[i] : i \in DOMAIN ConstructionSteps }
                /\ "server" \in bound[p]
          /\ raised_at[p] # None =>
                /\ p \notin server_run
                /\ pc[p] \in { "except", "raised" }
                /\ NoAssignmentEver

C10_Witness ==
    /\ 0 \in server_run
    /\ dispatched = 0
    /\ \E w \in Workers : 0 \in AssignRounds(w)

====
